---------------------------- MODULE Spec2Model ----------------------------
(***************************************************************************)
(* Model of src/App.tsx (BFHL API Tester): the React component App, its    *)
(* state (input, response, selectedFilters, loading), its handlers         *)
(* (handleInputChange, handleSubmit, the filter select's onChange) and the *)
(* pure functions validateJSON, processData and getFilteredResponse.       *)
(*                                                                         *)
(* Representation.  A JavaScript string is a sequence of UTF-16 code       *)
(* units (naturals): "M" is <<77>>, "-3.5" is <<45,51,46,53>>.  A          *)
(* JavaScript value that JSON.parse can produce is a record tagged by k:   *)
(*   [k |-> "str", s |-> code units]      [k |-> "num", n |-> natural]     *)
(*   [k |-> "null"]   [k |-> "bool", b |-> BOOLEAN]                        *)
(*   [k |-> "arr", a |-> sequence of values]                               *)
(*   [k |-> "obj", f |-> sequence of <<key, value>> members]               *)
(***************************************************************************)
EXTENDS Integers, Sequences, FiniteSets

VARIABLES
    input,            \* useState: the textarea's text (App.tsx:19)
    response,         \* useState: BFHLResponse | null (App.tsx:20)
    selectedFilters,  \* useState: FilterOption[] (App.tsx:21)
    loading,          \* useState: boolean (App.tsx:22)
    op,               \* the handler that ran last ("init" before any)
    toasted,          \* the notifications the last handler raised
    called,           \* whether the last handler invoked processData
    lastGood,         \* the data array of the last submission that stored a response
    data,             \* processData's argument (ClassifySpec)
    result            \* processData's outcome on data (ClassifySpec)

vars == <<input, response, selectedFilters, loading, op, toasted, called,
          lastGood, data, result>>

---------------------------------------------------------------------------
(* JavaScript values *)

Str(s) == [k |-> "str", s |-> s]
Num(n) == [k |-> "num", n |-> n]
Null == [k |-> "null"]
Bool(b) == [k |-> "bool", b |-> b]
Arr(a) == [k |-> "arr", a |-> a]
Obj(f) == [k |-> "obj", f |-> f]

\* undefined: what a property access yields when the property is absent
Undefined == [k |-> "undefined"]

\* a thrown TypeError, as the outcome of an evaluation
TypeError == [k |-> "throw", e |-> "TypeError"]

---------------------------------------------------------------------------
(* Strings *)

RECURSIVE Join(_, _)
\* the sequences of ss concatenated, sep between consecutive ones
Join(ss, sep) ==
    IF ss = <<>> THEN <<>>
    ELSE IF Len(ss) = 1 THEN ss[1]
    ELSE ss[1] \o sep \o Join(Tail(ss), sep)

RECURSIVE DecimalDigits(_)
\* Number.prototype.toString on a natural: its decimal digits
DecimalDigits(n) ==
    IF n < 10 THEN <<48 + n>>
    ELSE Append(DecimalDigits(n \div 10), 48 + (n % 10))

RECURSIVE ToString(_)
\* ECMAScript ToString, which RegExp.prototype.test and Number apply to a
\* value that is not a string
ToString(v) ==
    CASE v.k = "str" -> v.s
      [] v.k = "num" -> DecimalDigits(v.n)
      [] v.k = "null" -> <<110, 117, 108, 108>>                     \* "null"
      [] v.k = "bool" -> IF v.b THEN <<116, 114, 117, 101>>         \* "true"
                         ELSE <<102, 97, 108, 115, 101>>            \* "false"
      [] v.k = "arr" ->                                             \* a.join(",")
            Join([i \in 1..Len(v.a) |->
                    IF v.a[i].k = "null" THEN <<>> ELSE ToString(v.a[i])],
                 <<44>>)
      [] OTHER -> <<91, 111, 98, 106, 101, 99, 116, 32,
                    79, 98, 106, 101, 99, 116, 93>>                 \* "[object Object]"

\* String.prototype.toLowerCase, on the ASCII letters
toLowerCase(s) ==
    [i \in 1..Len(s) |-> IF s[i] \in 65..90 THEN s[i] + 32 ELSE s[i]]

RECURSIVE StrGT(_, _)
\* a > b on strings: lexicographic on code units, a proper prefix is smaller
StrGT(a, b) ==
    IF a = <<>> THEN FALSE
    ELSE IF b = <<>> THEN TRUE
    ELSE IF a[1] # b[1] THEN a[1] > b[1]
    ELSE StrGT(Tail(a), Tail(b))

---------------------------------------------------------------------------
(* Number(item) and isNaN: ECMAScript StringToNumber *)

\* StrWhiteSpaceChar: WhiteSpace and LineTerminator
WhiteSpaceChars == {9, 10, 11, 12, 13, 32, 160, 8232, 8233, 65279}

RECURSIVE TrimStart(_)
TrimStart(s) ==
    IF s # <<>> /\ s[1] \in WhiteSpaceChars THEN TrimStart(Tail(s)) ELSE s

RECURSIVE TrimEnd(_)
TrimEnd(s) ==
    IF s # <<>> /\ s[Len(s)] \in WhiteSpaceChars
    THEN TrimEnd(SubSeq(s, 1, Len(s) - 1)) ELSE s

TrimString(s) == TrimEnd(TrimStart(s))

IsDigitsIn(s, digits) == s # <<>> /\ \A i \in 1..Len(s) : s[i] \in digits

IsDecimalDigits(s) == IsDigitsIn(s, 48..57)

\* ExponentPart: e or E, an optional sign, DecimalDigits
IsExponentPart(e) ==
    /\ Len(e) >= 2
    /\ e[1] \in {101, 69}
    /\ \/ IsDecimalDigits(Tail(e))
       \/ e[2] \in {43, 45} /\ IsDecimalDigits(Tail(Tail(e)))

\* DecimalDigits . DecimalDigits(opt)  |  . DecimalDigits  |  DecimalDigits
IsMantissa(m) ==
    \/ IsDecimalDigits(m)
    \/ \E i \in 1..Len(m) :
          /\ m[i] = 46
          /\ LET a == SubSeq(m, 1, i - 1)
                 b == SubSeq(m, i + 1, Len(m))
             IN \/ IsDecimalDigits(a) /\ (b = <<>> \/ IsDecimalDigits(b))
                \/ a = <<>> /\ IsDecimalDigits(b)

InfinityLiteral == <<73, 110, 102, 105, 110, 105, 116, 121>>   \* "Infinity"

\* StrUnsignedDecimalLiteral other than Infinity
IsUnsignedDecimal(u) ==
    \E j \in 1..Len(u) :
        /\ IsMantissa(SubSeq(u, 1, j))
        /\ j = Len(u) \/ IsExponentPart(SubSeq(u, j + 1, Len(u)))

\* NonDecimalIntegerLiteral: 0b, 0o, 0x (either case) and digits of the base
IsNonDecimalInteger(u) ==
    /\ Len(u) >= 3
    /\ u[1] = 48
    /\ LET d == Tail(Tail(u))
       IN \/ u[2] \in {98, 66} /\ IsDigitsIn(d, 48..49)
          \/ u[2] \in {111, 79} /\ IsDigitsIn(d, 48..55)
          \/ u[2] \in {120, 88} /\ IsDigitsIn(d, (48..57) \cup (65..70) \cup (97..102))

\* StringToNumber, to the class of its result: "finite", "Infinity" (of
\* either sign) or "NaN".  A decimal literal is classed finite: one whose
\* exponent overflows a double is longer than the tokens modelled here.
StringToNumber(s) ==
    LET t == TrimString(s)
        u == IF t # <<>> /\ t[1] \in {43, 45} THEN Tail(t) ELSE t
    IN IF t = <<>> THEN "finite"                       \* +0
       ELSE IF u = InfinityLiteral THEN "Infinity"
       ELSE IF IsUnsignedDecimal(u) \/ IsNonDecimalInteger(t) THEN "finite"
       ELSE "NaN"

\* Number(item): ECMAScript ToNumber, to the class of its result
Number(v) ==
    CASE v.k = "str" -> StringToNumber(v.s)
      [] v.k = "num" -> "finite"
      [] v.k = "null" -> "finite"                      \* +0
      [] v.k = "bool" -> "finite"                      \* 0 or 1
      [] v.k = "undefined" -> "NaN"
      [] OTHER -> StringToNumber(ToString(v))          \* ToPrimitive, then the string

isNaN(x) == x = "NaN"

---------------------------------------------------------------------------
(* The regular expression of processData *)

AsciiLetters == (65..90) \cup (97..122)

\* mutant: the pattern without its $, /^[A-Za-z]/
AlphabetRegexTestUnanchored(v) ==
    LET s == ToString(v)
    IN \E i \in 1..Len(s) :
          /\ i = 1
          /\ s[i] \in AsciiLetters

\* /^[A-Za-z]$/.test(item): ^ matches only at the start and $ only at the
\* end of the input (no m flag), with one letter between them
AlphabetRegexTest(v) ==
    LET s == ToString(v)
    IN \E i \in 1..Len(s) :
          /\ i = 1
          /\ s[i] \in AsciiLetters
          /\ i = Len(s)

---------------------------------------------------------------------------
(* processData (App.tsx:42-58) *)

\* the imported USER_INFO (./config), whose values no handler reads or tests
USER_INFO ==
    [name |-> "name", dob |-> "dob", email |-> "email", roll_number |-> "roll_number"]

\* mutant: the callback with >= for >, so that the earlier of two equal wins
HigherAlphabetFirstWins(a, b) ==
    IF a.k # "str" \/ b.k # "str" THEN TypeError
    ELSE IF ~StrGT(toLowerCase(b.s), toLowerCase(a.s)) THEN a ELSE b

\* mutant: the callback without toLowerCase, a > b ? a : b
HigherAlphabetCaseSensitive(a, b) ==
    IF a.k # "str" \/ b.k # "str" THEN TypeError
    ELSE IF StrGT(a.s, b.s) THEN a ELSE b

\* the callback of alphabets.reduce: a.toLowerCase() > b.toLowerCase() ? a : b;
\* toLowerCase is a method of strings only, and calling it on another value
\* throws a TypeError
HigherAlphabet(a, b) ==
    IF a.k # "str" \/ b.k # "str" THEN TypeError
    ELSE IF StrGT(toLowerCase(a.s), toLowerCase(b.s)) THEN a ELSE b

RECURSIVE ReduceFrom(_, _, _)
\* Array.prototype.reduce from accumulator acc at index i; a throw of the
\* callback ends it
ReduceFrom(arr, acc, i) ==
    IF acc = TypeError THEN TypeError
    ELSE IF i > Len(arr) THEN acc
    ELSE ReduceFrom(arr, HigherAlphabet(acc, arr[i]), i + 1)

\* alphabets.reduce(callback) without an initial value, on a non-empty array:
\* the first element is the accumulator and the callback runs from the second
ReduceHighest(alphabets) == ReduceFrom(alphabets, alphabets[1], 2)

\* mutant: the numeric test without its negation
IsNumberItemNegationLost(item) == isNaN(Number(item))

\* the test of the numbers filter (App.tsx:43)
IsNumberItem(item) == ~isNaN(Number(item))

\* the test of the alphabets filter (App.tsx:44)
IsAlphabetItem(item) == AlphabetRegexTest(item)

\* processData(data): the response, or the TypeError the reduce callback throws
processData(d) ==
    LET numbers == SelectSeq(d, IsNumberItem)
        alphabets == SelectSeq(d, IsAlphabetItem)
        highest == IF Len(alphabets) > 0 THEN ReduceHighest(alphabets) ELSE Null
    IN IF highest = TypeError THEN TypeError
       ELSE [is_success |-> TRUE,
             user_id |-> <<USER_INFO.name, "_", USER_INFO.dob>>,
             email |-> USER_INFO.email,
             roll_number |-> USER_INFO.roll_number,
             numbers |-> numbers,
             alphabets |-> alphabets,
             highest_alphabet |-> IF Len(alphabets) > 0 THEN <<highest>> ELSE <<>>]

---------------------------------------------------------------------------
(* JSON text.  The textarea's text is modelled after lexical analysis, as   *)
(* a sequence of lexemes <<tag, characters>>: the punctuators "{" "}" "["  *)
(* "]" ":" ",", the literals "null" "true" "false", a string ("str", its   *)
(* characters), a number ("num", its digits) and "bad", a character that   *)
(* starts no JSON token.  White space between tokens is not represented.   *)

Punct(t) == <<t, <<>>>>

RECURSIVE NumberValue(_)
\* the natural a sequence of decimal digits denotes
NumberValue(ds) ==
    IF ds = <<>> THEN 0
    ELSE 10 * NumberValue(SubSeq(ds, 1, Len(ds) - 1)) + (ds[Len(ds)] - 48)

SyntaxError == [k |-> "throw", e |-> "SyntaxError"]

Parsed(v, next) == [ok |-> TRUE, v |-> v, next |-> next]

ParseFailed == [ok |-> FALSE]

RECURSIVE ParseValue(_, _)
RECURSIVE ParseElements(_, _, _)
RECURSIVE ParseMembers(_, _, _)

\* JSON value at lexeme i of t
ParseValue(t, i) ==
    IF i > Len(t) THEN ParseFailed
    ELSE LET x == t[i]
         IN CASE x[1] = "str" -> Parsed(Str(x[2]), i + 1)
              [] x[1] = "num" ->
                    IF IsDecimalDigits(x[2]) /\ (Len(x[2]) = 1 \/ x[2][1] # 48)
                    THEN Parsed(Num(NumberValue(x[2])), i + 1)
                    ELSE ParseFailed
              [] x[1] = "null" -> Parsed(Null, i + 1)
              [] x[1] = "true" -> Parsed(Bool(TRUE), i + 1)
              [] x[1] = "false" -> Parsed(Bool(FALSE), i + 1)
              [] x[1] = "[" ->
                    IF i + 1 <= Len(t) /\ t[i + 1][1] = "]"
                    THEN Parsed(Arr(<<>>), i + 2)
                    ELSE ParseElements(t, i + 1, <<>>)
              [] x[1] = "{" ->
                    IF i + 1 <= Len(t) /\ t[i + 1][1] = "}"
                    THEN Parsed(Obj(<<>>), i + 2)
                    ELSE ParseMembers(t, i + 1, <<>>)
              [] OTHER -> ParseFailed

\* the elements of an array from lexeme i on: a value, then "," and more or "]"
ParseElements(t, i, acc) ==
    LET r == ParseValue(t, i)
    IN IF ~r.ok \/ r.next > Len(t) THEN ParseFailed
       ELSE IF t[r.next][1] = "," THEN ParseElements(t, r.next + 1, Append(acc, r.v))
       ELSE IF t[r.next][1] = "]" THEN Parsed(Arr(Append(acc, r.v)), r.next + 1)
       ELSE ParseFailed

\* the members of an object from lexeme i on: string ":" value, then "," or "}"
ParseMembers(t, i, acc) ==
    IF i + 1 > Len(t) \/ t[i][1] # "str" \/ t[i + 1][1] # ":" THEN ParseFailed
    ELSE LET r == ParseValue(t, i + 2)
         IN IF ~r.ok \/ r.next > Len(t) THEN ParseFailed
            ELSE IF t[r.next][1] = ","
                 THEN ParseMembers(t, r.next + 1, Append(acc, <<t[i][2], r.v>>))
            ELSE IF t[r.next][1] = "}"
                 THEN Parsed(Obj(Append(acc, <<t[i][2], r.v>>)), r.next + 1)
            ELSE ParseFailed

\* JSON.parse(text): the value, or the SyntaxError it throws
JSONParse(t) ==
    LET r == ParseValue(t, 1)
    IN IF r.ok /\ r.next = Len(t) + 1 THEN r.v ELSE SyntaxError

RECURSIVE JSONStringify(_)
\* JSON.stringify(value, null, 2): the text of a value
JSONStringify(v) ==
    CASE v.k = "str" -> <<<<"str", v.s>>>>
      [] v.k = "num" -> <<<<"num", DecimalDigits(v.n)>>>>
      [] v.k = "bool" -> <<Punct(IF v.b THEN "true" ELSE "false")>>
      [] v.k = "arr" ->
            <<Punct("[")>>
            \o Join([i \in 1..Len(v.a) |-> JSONStringify(v.a[i])], <<Punct(",")>>)
            \o <<Punct("]")>>
      [] v.k = "obj" ->
            <<Punct("{")>>
            \o Join([i \in 1..Len(v.f) |->
                       <<<<"str", v.f[i][1]>>, Punct(":")>> \o JSONStringify(v.f[i][2])],
                    <<Punct(",")>>)
            \o <<Punct("}")>>
      [] OTHER -> <<Punct("null")>>

RECURSIVE Lookup(_, _, _)
\* the value of the last of the first n members of f named key (a later
\* duplicate of a key replaces an earlier one), undefined when there is none
Lookup(f, key, n) ==
    IF n = 0 THEN Undefined
    ELSE IF f[n][1] = key THEN f[n][2]
    ELSE Lookup(f, key, n - 1)

\* value.key for a key that is no built-in property: throws on null, is
\* undefined on a value that is no object or has no such member
GetProperty(v, key) ==
    CASE v.k = "null" -> TypeError
      [] v.k = "obj" -> Lookup(v.f, key, Len(v.f))
      [] OTHER -> Undefined

IsArray(v) == v.k = "arr"

DataKey == <<100, 97, 116, 97>>     \* "data"

---------------------------------------------------------------------------
(* validateJSON (App.tsx:24-34) *)

\* the parsed request, or null when JSON.parse throws, when reading .data
\* throws, or when .data is no array
validateJSON(text) ==
    LET parsed == JSONParse(text)
    IN IF parsed = SyntaxError THEN Null
       ELSE IF GetProperty(parsed, DataKey) = TypeError THEN Null
       ELSE IF ~IsArray(GetProperty(parsed, DataKey)) THEN Null
       ELSE parsed

---------------------------------------------------------------------------
(* getFilteredResponse (App.tsx:85-100) *)

filterOptions ==
    << [value |-> "numbers", label |-> "Numbers"],
       [value |-> "alphabets", label |-> "Alphabets"],
       [value |-> "highest_alphabet", label |-> "Highest Alphabet"] >>

\* the fields of a response that hold arrays
ArrayFields == {"numbers", "alphabets", "highest_alphabet"}

\* mutant: the condition as a test for a non-empty array
TruthyNonEmpty(obj, key) ==
    /\ key \in DOMAIN obj
    /\ IF key \in ArrayFields THEN obj[key] # <<>>
       ELSE IF key = "is_success" THEN obj[key]
       ELSE obj[key] # ""

\* the condition if (response[key]): an absent property is undefined and
\* falsy; an array is an object and truthy, whatever its length; a boolean is
\* its value; a string is truthy unless empty
Truthy(obj, key) ==
    /\ key \in DOMAIN obj
    /\ IF key \in ArrayFields THEN TRUE
       ELSE IF key = "is_success" THEN obj[key]
       ELSE obj[key] # ""

\* filtered[key] = value
Assign(filtered, key, value) ==
    [x \in DOMAIN filtered \cup {key} |-> IF x = key THEN value ELSE filtered[x]]

RECURSIVE ForEachFilter(_, _, _)
\* selectedFilters.forEach from index i on, on the object filtered
ForEachFilter(filters, filtered, i) ==
    IF i > Len(filters) THEN filtered
    ELSE ForEachFilter(filters,
                       IF Truthy(response, filters[i].value)
                       THEN Assign(filtered, filters[i].value, response[filters[i].value])
                       ELSE filtered,
                       i + 1)

\* mutant: filtered starts as a copy of the whole response
getFilteredResponseSpread ==
    IF response = Null THEN Null
    ELSE ForEachFilter(selectedFilters,
                       [x \in DOMAIN response |-> response[x]],
                       1)

\* what the Response panel prints: null without a response, else the object
\* filtered, as the function from its keys to their values
getFilteredResponse ==
    IF response = Null THEN Null
    ELSE ForEachFilter(selectedFilters,
                       [x \in {"is_success", "user_id"} |-> response[x]],
                       1)

\* the Response panel is rendered only with a response (App.tsx:145)
PanelShown == response # Null

\* the Submit button's disabled attribute (App.tsx:130)
SubmitDisabled == loading \/ validateJSON(input) = Null

---------------------------------------------------------------------------
(* Bounds and inputs *)

\* longest data array of the texts typed into the form
MaxElems == 2

\* longest token sequence handed to processData, over all the tokens
MaxData == 2

\* longest token sequence handed to processData, over the letters alone
MaxLetters == 4

RECURSIVE SeqsUpTo(_, _)
\* the sequences over S of length at most n
SeqsUpTo(S, n) ==
    IF n = 0 THEN {<<>>}
    ELSE LET shorter == SeqsUpTo(S, n - 1)
         IN shorter \cup {Append(q, x) : q \in shorter, x \in S}

sampleInput ==
    Obj(<< <<DataKey, Arr(<< Str(<<77>>), Str(<<49>>), Str(<<51, 51, 52>>),
                             Str(<<52>>), Str(<<66>>) >>)>> >>)

\* elements of the data arrays typed into the form: "a", "1" and ["a"], an
\* element that is no string
FormItems == {Str(<<97>>), Str(<<49>>), Arr(<<Str(<<97>>)>>)}

Request(d) == Obj(<< <<DataKey, Arr(d)>> >>)

\* texts that JSON.parse rejects
MalformedTexts ==
    { <<>>,                                                       \* (empty)
      <<Punct("{")>>,                                             \* {
      <<Punct("bad")>>,                                           \* #
      SubSeq(JSONStringify(sampleInput), 1, Len(JSONStringify(sampleInput)) - 1),
      JSONStringify(sampleInput) \o <<Punct("}")>>,
      <<Punct("{"), <<"str", DataKey>>, Punct(":"), Punct("["),
        <<"str", <<97>>>>, Punct(","), Punct("]"), Punct("}")>>,  \* {"data":["a",]}
      <<Punct("{"), <<"str", DataKey>>, Punct(":"), Punct("["),
        <<"num", <<48, 49>>>>, Punct("]"), Punct("}")>> }         \* {"data":[01]}

\* texts that JSON.parse accepts and validateJSON rejects
ShapelessTexts ==
    { JSONStringify(v) :
        v \in { Null, Num(5), Str(<<97>>), Arr(<<Str(<<97>>)>>), Obj(<<>>),
                Obj(<< <<DataKey, Str(<<97>>)>> >>),
                Obj(<< <<DataKey, Null>> >>),
                Obj(<< <<DataKey, Obj(<<>>)>> >>),
                Obj(<< <<<<120>>, Arr(<<Str(<<97>>)>>)>> >>),
                Obj(<< <<DataKey, Arr(<<Str(<<97>>)>>)>>, <<DataKey, Null>> >>) } }

\* texts with a data array
RequestTexts ==
    { JSONStringify(Request(d)) : d \in SeqsUpTo(FormItems, MaxElems) }
    \cup { JSONStringify(sampleInput),
           JSONStringify(Obj(<< <<DataKey, Null>>,
                                <<DataKey, Arr(<<Str(<<97>>), Bool(TRUE), Num(12), Null>>)>>,
                                <<<<120>>, Num(5)>> >>)) }

InputTexts == RequestTexts \cup ShapelessTexts \cup MalformedTexts

RECURSIVE Distinct(_)
Distinct(q) ==
    \/ q = <<>>
    \/ q[Len(q)] \notin {q[i] : i \in 1..Len(q) - 1}
       /\ Distinct(SubSeq(q, 1, Len(q) - 1))

\* what the multi-select can hold: options of filterOptions, each at most once
FilterSelections ==
    { q \in SeqsUpTo({filterOptions[i] : i \in 1..Len(filterOptions)}, Len(filterOptions)) :
        Distinct(q) }

---------------------------------------------------------------------------
(* The component: state and handlers *)

Toast(kind, message) == [kind |-> kind, message |-> message]

Init ==
    /\ input = JSONStringify(sampleInput)
    /\ response = Null
    /\ selectedFilters = <<>>
    /\ loading = FALSE
    /\ op = "init"
    /\ toasted = <<>>
    /\ called = FALSE
    /\ lastGood = Null
    /\ data = <<>>
    /\ result = Null

\* mutant: the edit also clears the response
handleInputChangeClearing(value) ==
    /\ input' = value
    /\ response' = Null
    /\ op' = "handleInputChange"
    /\ toasted' = <<>>
    /\ called' = FALSE
    /\ UNCHANGED <<selectedFilters, loading, lastGood, data, result>>

\* handleInputChange (App.tsx:36-39): stores the text; the validation's
\* result is dropped
handleInputChange(value) ==
    /\ input' = value
    /\ op' = "handleInputChange"
    /\ toasted' = <<>>
    /\ called' = FALSE
    /\ UNCHANGED <<response, selectedFilters, loading, lastGood, data, result>>

\* the Select's onChange (App.tsx:155); the Select exists only with a response
setSelectedFilters(selected) ==
    /\ PanelShown
    /\ selectedFilters' = selected
    /\ op' = "setSelectedFilters"
    /\ toasted' = <<>>
    /\ called' = FALSE
    /\ UNCHANGED <<input, response, loading, lastGood, data, result>>

\* mutant: the catch block also clears the response
handleSubmitClearing ==
    LET parsedInput == validateJSON(input)
        requestData == GetProperty(parsedInput, DataKey).a
        outcome == processData(requestData)
    IN /\ op' = "handleSubmit"
       /\ loading' = FALSE
       /\ UNCHANGED <<input, selectedFilters, data, result>>
       /\ IF parsedInput = Null
          THEN /\ toasted' = <<Toast("error", "Invalid JSON format. Please check your input.")>>
               /\ called' = FALSE
               /\ response' = Null
               /\ UNCHANGED lastGood
          ELSE /\ called' = TRUE
               /\ IF outcome = TypeError
                  THEN /\ toasted' = <<Toast("error", "toLowerCase is not a function")>>
                       /\ response' = Null
                       /\ UNCHANGED lastGood
                  ELSE /\ response' = outcome
                       /\ lastGood' = Arr(requestData)
                       /\ toasted' = <<Toast("success", "Data processed successfully!")>>

\* handleSubmit (App.tsx:60-83), the form's onSubmit.  The handler runs to
\* its end without suspending, so setLoading(true) is never rendered and
\* finally leaves loading false.  It is the form's handler, not the
\* button's: a submit event reaches it whatever the button's disabled state.
\* The message of the TypeError is the engine's; only its kind is used.
handleSubmit ==
    LET parsedInput == validateJSON(input)
        requestData == GetProperty(parsedInput, DataKey).a
        outcome == processData(requestData)
    IN /\ op' = "handleSubmit"
       /\ loading' = FALSE
       /\ UNCHANGED <<input, selectedFilters, data, result>>
       /\ IF parsedInput = Null
          THEN /\ toasted' = <<Toast("error", "Invalid JSON format. Please check your input.")>>
               /\ called' = FALSE
               /\ UNCHANGED <<response, lastGood>>
          ELSE /\ called' = TRUE
               /\ IF outcome = TypeError
                  THEN /\ toasted' = <<Toast("error", "toLowerCase is not a function")>>
                       /\ UNCHANGED <<response, lastGood>>
                  ELSE /\ response' = outcome
                       /\ lastGood' = Arr(requestData)
                       /\ toasted' = <<Toast("success", "Data processed successfully!")>>

Next ==
    \/ \E value \in InputTexts : handleInputChange(value)
    \/ \E selected \in FilterSelections : setSelectedFilters(selected)
    \/ handleSubmit

Spec == Init /\ [][Next]_vars

---------------------------------------------------------------------------
(* processData on its own: every token sequence within the bounds *)

\* the tokens: strings, as processData's parameter type string[] has them
Tokens ==
    { Str(s) : s \in
        { <<>>,                                  \* ""
          <<32>>,                                \* " "
          <<97>>, <<65>>, <<122>>, <<90>>,       \* "a" "A" "z" "Z"
          <<77>>, <<66>>,                        \* "M" "B"
          <<49>>, <<52>>, <<51, 51, 52>>,        \* "1" "4" "334"
          <<45, 51, 46, 53>>,                    \* "-3.5"
          <<43, 55>>, <<46, 53>>, <<53, 46>>,    \* "+7" ".5" "5."
          <<32, 49, 10>>,                        \* " 1\n"
          <<49, 101, 51>>,                       \* "1e3"
          <<48, 120, 49, 70>>,                   \* "0x1F"
          InfinityLiteral,                       \* "Infinity"
          <<45>> \o InfinityLiteral,             \* "-Infinity"
          <<119, 111, 114, 100>>,                \* "word"
          <<97, 98>>,                            \* "ab"
          <<97, 10>>,                            \* "a\n"
          <<36>>, <<45>>, <<46>>,                \* "$" "-" "."
          <<49, 46, 50, 46, 51>>,                \* "1.2.3"
          <<49, 101>>,                           \* "1e"
          <<45, 48, 120, 49>>,                   \* "-0x1"
          <<233>> } }                            \* "é"

Letters == {Str(<<97>>), Str(<<65>>), Str(<<122>>), Str(<<90>>)}

ClassifyInputs ==
    SeqsUpTo(Tokens, MaxData)
    \cup SeqsUpTo(Letters, MaxLetters)
    \cup { GetProperty(sampleInput, DataKey).a,
           << Str(<<45, 51, 46, 53>>), Str(<<119, 111, 114, 100>>), Str(<<36>>) >>,
           << Str(<<49>>), Str(<<36>>), Str(<<97>>), Str(<<49>>), Str(<<97>>) >> }

ClassifyInit ==
    /\ data \in ClassifyInputs
    /\ result = Null
    /\ input = JSONStringify(sampleInput)
    /\ response = Null
    /\ selectedFilters = <<>>
    /\ loading = FALSE
    /\ op = "init"
    /\ toasted = <<>>
    /\ called = FALSE
    /\ lastGood = Null

\* the call processData(data)
Classify ==
    /\ result = Null
    /\ result' = processData(data)
    /\ UNCHANGED <<data, input, response, selectedFilters, loading, op, toasted,
                   called, lastGood>>

ClassifyNext == Classify

ClassifySpec == ClassifyInit /\ [][ClassifyNext]_vars

---------------------------------------------------------------------------
(* Vocabulary of the properties *)

Elems(q) == {q[i] : i \in 1..Len(q)}

Count(x, q) == Cardinality({i \in 1..Len(q) : q[i] = x})

RECURSIVE IsSubsequence(_, _)
\* a is b with some elements left out, the others in b's order
IsSubsequence(a, b) ==
    IF a = <<>> THEN TRUE
    ELSE IF b = <<>> THEN FALSE
    ELSE IF a[1] = b[1] THEN IsSubsequence(Tail(a), Tail(b))
    ELSE IsSubsequence(a, Tail(b))

\* a token that is one ASCII letter, A-Z or a-z
IsSingleLetter(t) ==
    /\ t.k = "str"
    /\ Len(t.s) = 1
    /\ (65 <= t.s[1] /\ t.s[1] <= 90) \/ (97 <= t.s[1] /\ t.s[1] <= 122)

\* the lowercase form of a single letter, as its code
LowerCode(t) == IF t.s[1] <= 90 THEN t.s[1] + 32 ELSE t.s[1]

\* the positions of q whose letter is greatest in lowercase
Greatest(q) == {i \in 1..Len(q) : \A j \in 1..Len(q) : LowerCode(q[j]) <= LowerCode(q[i])}

Min(S) == CHOOSE x \in S : \A y \in S : x <= y

Max(S) == CHOOSE x \in S : \A y \in S : y <= x

\* a token whose text, white space around it put aside, is a numeric literal
\* of a finite value; the empty and the blank text are none
IsFiniteNumeric(t) ==
    /\ t.k = "str"
    /\ TrimString(t.s) # <<>>
    /\ StringToNumber(t.s) = "finite"

Classified == result # Null

TieScenario == << Str(<<97>>), Str(<<65>>), Str(<<122>>), Str(<<90>>) >>

SelectedFields == {selectedFilters[i].value : i \in 1..Len(selectedFilters)}

SubmittedInvalid == op = "handleSubmit" /\ validateJSON(input) = Null

SubmittedValid == op = "handleSubmit" /\ validateJSON(input) # Null

OneToast(kind) == Len(toasted) = 1 /\ toasted[1].kind = kind

---------------------------------------------------------------------------
(* C1 *)

\* C1 (as stated): with alphabets non-empty, highest_alphabet is the
\* leftmost of the elements of alphabets greatest in lowercase; for
\* ["a","A","z","Z"] it is ["z"].
C1_FirstOfTies ==
    (Classified /\ result.alphabets # <<>>) =>
        /\ result.highest_alphabet = <<result.alphabets[Min(Greatest(result.alphabets))]>>
        /\ data = TieScenario => result.highest_alphabet = <<Str(<<122>>)>>

\* C1 (amended): with alphabets non-empty, highest_alphabet is the
\* rightmost of the elements of alphabets greatest in lowercase; for
\* ["a","A","z","Z"] it is ["Z"].
C1_LastOfTies ==
    (Classified /\ result.alphabets # <<>>) =>
        /\ result.highest_alphabet = <<result.alphabets[Max(Greatest(result.alphabets))]>>
        /\ data = TieScenario => result.highest_alphabet = <<Str(<<90>>)>>

\* processData has run on ["a","A","z","Z"], where "z" and "Z" tie
C1_Witness ==
    /\ Classified
    /\ data = TieScenario
    /\ Cardinality(Greatest(result.alphabets)) = 2
    /\ result.highest_alphabet = <<Str(<<90>>)>>

---------------------------------------------------------------------------
(* C2 *)

\* C2: a token is in numbers if and only if it parses as a finite numeric
\* value; the empty string, a blank string and "Infinity" are not in numbers.
C2_NumbersIffFiniteNumeric ==
    Classified =>
        \A i \in 1..Len(data) :
            data[i] \in Elems(result.numbers) <=> IsFiniteNumeric(data[i])

---------------------------------------------------------------------------
(* C3 *)

\* C3: a token is in alphabets if and only if it is exactly one ASCII
\* letter; words, digits, symbols and the empty string never are.
C3_AlphabetsIffSingleLetter ==
    Classified =>
        \A i \in 1..Len(data) :
            data[i] \in Elems(result.alphabets) <=> IsSingleLetter(data[i])

\* processData has run on a letter next to a word of several letters, and
\* kept the one and dropped the other
C3_Witness ==
    /\ Classified
    /\ \E i, j \in 1..Len(data) :
          /\ Len(data[i].s) = 1 /\ data[i] \in Elems(result.alphabets)
          /\ Len(data[j].s) > 1 /\ IsSingleLetter(Str(<<data[j].s[1]>>))
          /\ data[j] \notin Elems(result.alphabets)

---------------------------------------------------------------------------
(* C4 *)

\* C4: highest_alphabet is empty if and only if alphabets is; otherwise it
\* has one element, an element of alphabets, whose lowercase form is at
\* least that of every element of alphabets.
C4_HighestIsMaximum ==
    Classified =>
        /\ result.highest_alphabet = <<>> <=> result.alphabets = <<>>
        /\ result.alphabets # <<>> =>
              /\ Len(result.highest_alphabet) = 1
              /\ result.highest_alphabet[1] \in Elems(result.alphabets)
              /\ \A j \in 1..Len(result.alphabets) :
                    LowerCode(result.alphabets[j]) <= LowerCode(result.highest_alphabet[1])

\* processData has run on letters of both cases where the greatest is
\* neither the first nor the last
C4_Witness ==
    /\ Classified
    /\ Len(result.alphabets) >= 3
    /\ Greatest(result.alphabets) = {2}
    /\ result.highest_alphabet = <<result.alphabets[2]>>
    /\ LowerCode(result.alphabets[2]) # result.alphabets[2].s[1]

---------------------------------------------------------------------------
(* C5 *)

\* C5: numbers and alphabets share no token, each is a subsequence of the
\* input that keeps every occurrence of the tokens it holds, and a token in
\* neither is dropped without an error.
C5_DisjointSubsequences ==
    Classified =>
        /\ result # TypeError
        /\ Elems(result.numbers) \cap Elems(result.alphabets) = {}
        /\ IsSubsequence(result.numbers, data)
        /\ IsSubsequence(result.alphabets, data)
        /\ \A x \in Elems(result.numbers) : Count(x, result.numbers) = Count(x, data)
        /\ \A x \in Elems(result.alphabets) : Count(x, result.alphabets) = Count(x, data)

\* processData has run on ["1","$","a","1","a"]: repeated tokens of both
\* kinds and a token of neither
C5_Witness ==
    /\ Classified
    /\ data = << Str(<<49>>), Str(<<36>>), Str(<<97>>), Str(<<49>>), Str(<<97>>) >>
    /\ result.numbers = << Str(<<49>>), Str(<<49>>) >>
    /\ result.alphabets = << Str(<<97>>), Str(<<97>>) >>

---------------------------------------------------------------------------
(* C6 *)

\* C6: with a response, the filtered output has is_success and user_id and
\* no field other than these and the selected ones; email and roll_number
\* are never in it, and an empty selection gives the two alone.
C6_FilteredFrame ==
    response # Null =>
        /\ {"is_success", "user_id"} \subseteq DOMAIN getFilteredResponse
        /\ DOMAIN getFilteredResponse \subseteq {"is_success", "user_id"} \cup SelectedFields
        /\ DOMAIN getFilteredResponse \cap {"email", "roll_number"} = {}
        /\ getFilteredResponse["is_success"] = response.is_success
        /\ getFilteredResponse["user_id"] = response.user_id
        /\ selectedFilters = <<>> => DOMAIN getFilteredResponse = {"is_success", "user_id"}

\* a response is shown with two of the three fields selected
C6_Witness ==
    /\ response # Null
    /\ Len(selectedFilters) = 2
    /\ Cardinality(DOMAIN getFilteredResponse) = 4

---------------------------------------------------------------------------
(* C7 *)

\* C7 (as stated): a selected field is in the filtered output if and only
\* if it is non-empty in the response.
C7_EmptyFieldOmitted ==
    response # Null =>
        \A f \in SelectedFields :
            f \in DOMAIN getFilteredResponse <=> response[f] # <<>>

\* C7 (amended): each of numbers, alphabets and highest_alphabet is in the
\* filtered output if and only if it is selected, with the response's
\* value, an empty list included.
C7_SelectedFieldCopied ==
    response # Null =>
        \A f \in ArrayFields :
            /\ f \in DOMAIN getFilteredResponse <=> f \in SelectedFields
            /\ f \in SelectedFields => getFilteredResponse[f] = response[f]

\* highest_alphabet is selected and empty in the response shown
C7_Witness ==
    /\ response # Null
    /\ "highest_alphabet" \in SelectedFields
    /\ response.highest_alphabet = <<>>
    /\ getFilteredResponse["highest_alphabet"] = <<>>

---------------------------------------------------------------------------
(* C8 *)

\* C8 (as stated): after a submission of a text that validateJSON rejects,
\* processData was not invoked, one failure and no success notification
\* was shown, and no result is displayed.
C8_NoResultAfterFailure ==
    SubmittedInvalid =>
        /\ ~called
        /\ OneToast("error")
        /\ ~PanelShown

\* C8 (amended): after such a submission processData was not invoked, one
\* failure and no success notification was shown, and the stored response
\* is as before: none when no submission has succeeded, else that of the
\* last one that did, which stays displayed.
C8_FailureKeepsResponse ==
    SubmittedInvalid =>
        /\ ~called
        /\ OneToast("error")
        /\ PanelShown <=> lastGood # Null
        /\ lastGood # Null => response = processData(lastGood.a)

\* a rejected text was submitted after an earlier submission had succeeded
C8_Witness ==
    /\ SubmittedInvalid
    /\ JSONParse(input) # SyntaxError
    /\ lastGood # Null
    /\ PanelShown

---------------------------------------------------------------------------
(* C9 *)

\* C9: after a submission of a text that parses to JSON with a data array,
\* processData has run without raising, the response is the new one, and
\* one success and no failure notification was shown.
C9_ValidRequestSucceeds ==
    SubmittedValid =>
        /\ called
        /\ OneToast("success")
        /\ response # Null
        /\ response = processData(GetProperty(validateJSON(input), DataKey).a)

---------------------------------------------------------------------------
(* C10 *)

\* C10: the stored response is null while no submission has succeeded, and
\* otherwise processData of the data array of the last submission that
\* succeeded, whatever was edited, selected or submitted before or since.
C10_ResponseOfLastSuccess ==
    /\ lastGood = Null => response = Null
    /\ lastGood # Null => response = processData(lastGood.a)
    /\ (op = "handleSubmit" /\ OneToast("success")) =>
          lastGood = GetProperty(validateJSON(input), DataKey)

\* a submission of an edited text succeeded, then the text was edited to
\* another request and a filter chosen: the response is still that of the
\* submission that succeeded
C10_Witness ==
    /\ lastGood # Null
    /\ op = "setSelectedFilters"
    /\ selectedFilters # <<>>
    /\ validateJSON(input) # Null
    /\ GetProperty(validateJSON(input), DataKey) # lastGood
    /\ lastGood # GetProperty(sampleInput, DataKey)
    /\ response = processData(lastGood.a)

===========================================================================
